---- MODULE Spec2Model ----
(***************************************************************************)
(* Model of the ckb-multisig lock script, contracts/ckb-multisig/src/      *)
(* entry.rs: main (argument decoding, witness descriptor validation,       *)
(* commitment check), check_since (time-lock loop over the group outputs)  *)
(* and epoch_number_with_fraction_cmp.                                     *)
(*                                                                         *)
(* Bytes are naturals in 0..255 and byte strings are sequences of them.    *)
(* A u64 is held as four 16-bit limbs, least significant first, because    *)
(* the model checker's integers are 32 bits wide: shifts, masks,           *)
(* comparisons and products of u64 values are computed on the limbs.       *)
(***************************************************************************)
EXTENDS Integers, Sequences, FiniteSets, TLC

VARIABLES
    entry,                \* which function the run started in: "main", "check_since", "cmp"
    pc,                   \* position in the code
    result,               \* "Running", "Ok" or the Error returned
    args,                 \* main: script args bytes
    since,                \* main: decoded since / check_since: its parameter
    lock_bytes,           \* main: the witness lock
    require_first_n,      \* main: lock_bytes[1]
    threshold,            \* main: lock_bytes[2]
    pubkeys_cnt,          \* main: lock_bytes[3]
    multisig_script_len,  \* main: FLAGS_SIZE + BLAKE160_SIZE * pubkeys_cnt
    i,                    \* check_since: loop index
    host_script,          \* what load_script() returns
    host_witness,         \* what load_witness_args(0, GroupInput) returns
    host_sinces,          \* since values behind load_input_since(i, GroupOutput)
    host_fail,            \* indexes at which load_input_since fails (at most one)
    run,                  \* 1 for the first validation of a witness, 2 for the second
    prev_result,          \* result of the first validation, "None" before it ends
    cmp_ops,              \* operands <<a, b, c>> of epoch_number_with_fraction_cmp
    cmp_out               \* results of the comparisons made on cmp_ops

vars == <<entry, pc, result, args, since, lock_bytes, require_first_n, threshold,
          pubkeys_cnt, multisig_script_len, i, host_script, host_witness,
          host_sinces, host_fail, run, prev_result, cmp_ops, cmp_out>>

-----------------------------------------------------------------------------
(* Bounds of the model *)

\* header fields require_first_n, threshold and pubkey_count range over 0..MaxCount
MaxCount == 3
\* the group has at most MaxOutputs output slots
MaxOutputs == 2

-----------------------------------------------------------------------------
(* Constants of entry.rs *)

BLAKE160_SIZE == 20
U64_SIZE == 8
FLAGS_SIZE == 4
SIGNATURE_SIZE == 65
BLAKE2B_BLOCK_SIZE == 32
SINCE_VALUE_BITS == 56
SINCE_EPOCH_FRACTION_FLAG == 32
\* 0x00ffffffffffffff as limbs
SINCE_VALUE_MASK == <<65535, 65535, 65535, 255>>

-----------------------------------------------------------------------------
(* u64 arithmetic on 16-bit limbs *)

LimbBase == 2^16

Min(x, y) == IF x < y THEN x ELSE y

\* limb k of x, 0 beyond the fourth
Limb(x, k) == IF k <= 4 THEN x[k] ELSE 0

\* (x >> offset) & ((1 << bits) - 1) for bits <= 24: the bits of the field
\* lie in at most three limbs, the lowest of which gives its top 16 - r bits
ShrAndMask(x, offset, bits) ==
    LET q == offset \div 16
        r == offset % 16
        n0 == Min(bits, 16 - r)
        n1 == Min(bits - n0, 16)
        n2 == bits - n0 - n1
    IN  ((Limb(x, q + 1) \div 2^r) % 2^n0)
        + ((Limb(x, q + 2) % 2^n1) * 2^n0)
        + ((Limb(x, q + 3) % 2^n2) * 2^(n0 + n1))

\* x >> n for n >= 40: the result is below 2^(64-n)
Shr(x, n) == ShrAndMask(x, n, 64 - n)

RECURSIVE BitAnd(_, _)
BitAnd(a, b) ==
    IF a = 0 \/ b = 0 THEN 0
    ELSE (a % 2) * (b % 2) + 2 * BitAnd(a \div 2, b \div 2)

\* x & m on u64
And64(x, m) == [k \in 1..4 |-> BitAnd(x[k], m[k])]

\* x < y on u64
Lt64(x, y) ==
    \E k \in 1..4 : x[k] < y[k] /\ \A j \in (k + 1)..4 : x[j] = y[j]

\* x * y on u64 for x, y below 2^16; the product is below 2^32
Mul64(x, y) ==
    LET p0 == (x % 256) * (y % 256)
        p1 == (x % 256) * (y \div 256) + (x \div 256) * (y % 256)
        p2 == (x \div 256) * (y \div 256)
        t  == p0 + 256 * p1
    IN  <<t % LimbBase, (p2 + t \div LimbBase) % LimbBase,
          (p2 + t \div LimbBase) \div LimbBase, 0>>

\* u64::from_le_bytes on the 8 bytes b
from_le_bytes(b) == [k \in 1..4 |-> b[2 * k - 1] + 256 * b[2 * k]]

\* u64::to_le_bytes, used to build script args
to_le_bytes(x) ==
    [k \in 1..U64_SIZE |->
        IF k % 2 = 1 THEN x[(k + 1) \div 2] % 256 ELSE x[k \div 2] \div 256]

U64Zero == <<0, 0, 0, 0>>

-----------------------------------------------------------------------------
(* epoch_number_with_fraction_cmp, entry.rs 134-177 *)

epoch_number_with_fraction_cmp_own_len(a, b) ==
    LET a_epoch == ShrAndMask(a, 0, 24)
        a_index == ShrAndMask(a, 24, 16)
        a_len   == ShrAndMask(a, 40, 16)
        b_epoch == ShrAndMask(b, 0, 24)
        b_index == ShrAndMask(b, 24, 16)
        b_len   == ShrAndMask(b, 40, 16)
        a_block == Mul64(a_index, a_len)
        b_block == Mul64(b_index, b_len)
    IN  IF a_epoch < b_epoch THEN 0 - 1
        ELSE IF a_epoch > b_epoch THEN 1
        ELSE IF Lt64(a_block, b_block) THEN 0 - 1
        ELSE IF Lt64(b_block, a_block) THEN 1
        ELSE 0

epoch_number_with_fraction_cmp_le(a, b) ==
    LET a_epoch == ShrAndMask(a, 0, 24)
        a_index == ShrAndMask(a, 24, 16)
        a_len   == ShrAndMask(a, 40, 16)
        b_epoch == ShrAndMask(b, 0, 24)
        b_index == ShrAndMask(b, 24, 16)
        b_len   == ShrAndMask(b, 40, 16)
        a_block == Mul64(a_index, b_len)
        b_block == Mul64(b_index, a_len)
    IN  IF a_epoch < b_epoch THEN 0 - 1
        ELSE IF a_epoch > b_epoch THEN 1
        ELSE IF ~ Lt64(b_block, a_block) THEN 0 - 1
        ELSE 1

epoch_number_with_fraction_cmp(a, b) ==
    LET number_offset == 0
        number_bits   == 24
        index_offset  == number_bits
        index_bits    == 16
        length_offset == number_bits + index_bits
        length_bits   == 16
        a_epoch == ShrAndMask(a, number_offset, number_bits)
        a_index == ShrAndMask(a, index_offset, index_bits)
        a_len   == ShrAndMask(a, length_offset, length_bits)
        b_epoch == ShrAndMask(b, number_offset, number_bits)
        b_index == ShrAndMask(b, index_offset, index_bits)
        b_len   == ShrAndMask(b, length_offset, length_bits)
        a_block == Mul64(a_index, b_len)
        b_block == Mul64(b_index, a_len)
    IN  IF a_epoch < b_epoch THEN 0 - 1
        ELSE IF a_epoch > b_epoch THEN 1
        ELSE IF Lt64(a_block, b_block) THEN 0 - 1
        ELSE IF Lt64(b_block, a_block) THEN 1
        ELSE 0

-----------------------------------------------------------------------------
(* check_since: the test made on one loaded since value, entry.rs 108-119 *)

SlotCheck_le(since_flags, since_value, input_since) ==
    LET input_since_flags == Shr(input_since, SINCE_VALUE_BITS)
        input_since_value == And64(input_since, SINCE_VALUE_MASK)
    IN  IF since_flags # input_since_flags THEN "IncorrectSinceFlags"
        ELSE IF input_since_flags = SINCE_EPOCH_FRACTION_FLAG
        THEN IF epoch_number_with_fraction_cmp(input_since_value, since_value) <= 0
             THEN "IncorrectSinceValue" ELSE "Ok"
        ELSE IF ~ Lt64(since_value, input_since_value)
        THEN "IncorrectSinceValue" ELSE "Ok"

SlotCheck(since_flags, since_value, input_since) ==
    LET input_since_flags == Shr(input_since, SINCE_VALUE_BITS)
        input_since_value == And64(input_since, SINCE_VALUE_MASK)
    IN  IF since_flags # input_since_flags THEN "IncorrectSinceFlags"
        ELSE IF input_since_flags = SINCE_EPOCH_FRACTION_FLAG
        THEN IF epoch_number_with_fraction_cmp(input_since_value, since_value) < 0
             THEN "IncorrectSinceValue" ELSE "Ok"
        ELSE IF Lt64(input_since_value, since_value)
        THEN "IncorrectSinceValue" ELSE "Ok"

-----------------------------------------------------------------------------
(* The 32-byte digest of entry.rs 83-86.  Blake2b itself is a library; the  *)
(* model keeps what main depends on: a deterministic function of the       *)
(* hashed bytes whose output is BLAKE2B_BLOCK_SIZE bytes long and changes  *)
(* when a byte of the input changes.                                       *)

RECURSIVE Absorb(_, _, _)
Absorb(data, lo, hi) ==
    IF lo > hi THEN 0
    ELSE IF lo = hi THEN ((data[lo] + 1) * lo) % 65521
    ELSE LET mid == (lo + hi) \div 2
         IN  (Absorb(data, lo, mid) + Absorb(data, mid + 1, hi)) % 65521

Blake2b(data) ==
    LET s == (Absorb(data, 1, Len(data)) + Len(data)) % 65521
    IN  [k \in 1..BLAKE2B_BLOCK_SIZE |-> (s * k + k * k + s \div 256) % 256]

\* &lock_bytes.as_slice()[0..n]
Slice(bytes, n) == SubSeq(bytes, 1, n)

-----------------------------------------------------------------------------
(* Inputs: the transaction the host serves to the script *)

\* a since value from its flags byte and its length, index and number fields
MkSince(flags, length, index, number) ==
    <<number % LimbBase,
      number \div LimbBase + (index % 256) * 256,
      index \div 256 + (length % 256) * 256,
      length \div 256 + flags * 256>>

\* since values of the group outputs and since bounds given to check_since:
\* plain block numbers (flags 0x00), relative block numbers (0x80),
\* a timestamp (0x40) and epoch fractions (0x20)
SinceVals ==
    { U64Zero,
      MkSince(0, 0, 0, 5),
      MkSince(0, 65535, 0, 5),
      MkSince(128, 0, 0, 5),
      MkSince(64, 0, 0, 5),
      MkSince(32, 4, 1, 10),
      MkSince(32, 2, 1, 10),
      MkSince(32, 4, 2, 10),
      MkSince(32, 65535, 65535, 9),
      MkSince(32, 0, 0, 10) }

\* since values of the group outputs in the runs of main
MainSinceVals == { MkSince(128, 0, 0, 5) }

\* since bounds encoded in 28-byte script args
ArgSinces == { U64Zero, MkSince(32, 4, 1, 10), MkSince(128, 0, 0, 5) }

\* sequences over S of length at most n
RECURSIVE SeqsUpTo(_, _)
SeqsUpTo(S, n) ==
    IF n = 0 THEN { <<>> }
    ELSE LET shorter == SeqsUpTo(S, n - 1)
         IN  shorter \cup { Append(q, x) : q \in { r \in shorter : Len(r) = n - 1 }, x \in S }

\* n bytes that depend on their position and on the seed
Fill(n, seed) == [j \in 1..n |-> (seed * j + seed) % 256]

\* the bytes of a witness lock: header, pubkey_count key hashes, threshold
\* signatures, cut or extended to length 4 + 20 N + 65 M + delta
MkLock(reserved, first_n, m, n, delta, sig_seed) ==
    LET full == <<reserved, first_n, m, n>> \o Fill(BLAKE160_SIZE * n, 17)
                \o Fill(SIGNATURE_SIZE * m + 1, sig_seed)
    IN  SubSeq(full, 1, FLAGS_SIZE + BLAKE160_SIZE * n + SIGNATURE_SIZE * m + delta)

Locks ==
    { MkLock(r, f, m, n, d, 7) :
        r \in {0, 1}, f \in 0..MaxCount, m \in 0..MaxCount, n \in 0..MaxCount,
        d \in {0 - 1, 0, 1} }
    \cup { <<>> }

Witnesses ==
    { [status |-> "Lock", lock |-> l] : l \in Locks }
    \cup { [status |-> "NoLock", lock |-> <<>>], [status |-> "Encoding", lock |-> <<>>] }

\* the header-plus-keys prefix a lock declares (all of the lock when it is shorter)
DeclaredPrefix(lock) ==
    IF Len(lock) < FLAGS_SIZE THEN lock
    ELSE Slice(lock, Min(Len(lock), FLAGS_SIZE + BLAKE160_SIZE * lock[4]))

\* bytes with the byte at position k changed
Flip(bytes, k) == [j \in 1..Len(bytes) |-> IF j = k THEN (bytes[j] + 1) % 256 ELSE bytes[j]]

\* script args offered with a witness: of every length around 20 and 28, and
\* the commitments a user could have derived from the witness lock
ArgsFor(w) ==
    LET prefix == DeclaredPrefix(w.lock)
        h      == Blake2b(prefix)
    IN  { Fill(n, 3) : n \in {0, 19, 20, 21, 28, 32} }
        \cup { Slice(h, BLAKE160_SIZE), h,
               Slice(Blake2b(w.lock), BLAKE160_SIZE),
               Slice(Blake2b(Flip(prefix, Len(prefix))), BLAKE160_SIZE) }
        \cup { Slice(h, BLAKE160_SIZE) \o to_le_bytes(s) : s \in ArgSinces }

Scripts(w) ==
    { [status |-> "Ok", args |-> a] : a \in ArgsFor(w) }
    \cup { [status |-> "Encoding", args |-> <<>>] }

\* operands of the comparator: 56-bit epoch-fraction values
EpochVals ==
    { MkSince(0, l, x, n) : l \in {0, 2, 4, 65535}, x \in {0, 1, 2, 65535}, n \in {10, 11} }

-----------------------------------------------------------------------------
(* Initial states *)

Idle ==
    /\ args = <<>>
    /\ lock_bytes = <<>>
    /\ require_first_n = 0
    /\ threshold = 0
    /\ pubkeys_cnt = 0
    /\ multisig_script_len = 0
    /\ i = 0
    /\ result = "Running"
    /\ run = 1
    /\ prev_result = "None"

NoCmp ==
    /\ cmp_ops = <<U64Zero, U64Zero, U64Zero>>
    /\ cmp_out = <<>>

\* a run of main on some transaction
InitMain ==
    /\ entry = "main"
    /\ pc = "load_script"
    /\ host_witness \in Witnesses
    /\ host_script \in Scripts(host_witness)
    /\ host_sinces \in SeqsUpTo(MainSinceVals, MaxOutputs)
    /\ host_fail = {}
    /\ since = U64Zero
    /\ Idle
    /\ NoCmp

\* a call of check_since(since) on some group outputs
InitSince ==
    /\ entry = "check_since"
    /\ pc = "check_since"
    /\ host_witness = [status |-> "NoLock", lock |-> <<>>]
    /\ host_script = [status |-> "Encoding", args |-> <<>>]
    /\ host_sinces \in SeqsUpTo(SinceVals, MaxOutputs)
    /\ host_fail \in { {} } \cup { {k} : k \in 0..Len(host_sinces) }
    /\ Idle
    /\ since \in SinceVals
    /\ NoCmp

Init == InitMain \/ InitSince

\* a comparison of epoch-fraction values
InitCmp ==
    /\ entry = "cmp"
    /\ pc = "cmp"
    /\ host_witness = [status |-> "NoLock", lock |-> <<>>]
    /\ host_script = [status |-> "Encoding", args |-> <<>>]
    /\ host_sinces = <<>>
    /\ host_fail = {}
    /\ since = U64Zero
    /\ Idle
    /\ cmp_ops \in EpochVals \X EpochVals \X EpochVals
    /\ cmp_out = <<>>

-----------------------------------------------------------------------------
(* main, entry.rs 28-95 *)

\* Error::from(SysError), used by the ? operator and by err.into()
ErrorFromSysError(err) == "HostDataUnavailable"

main_locals == <<args, since, lock_bytes, require_first_n, threshold, pubkeys_cnt,
                 multisig_script_len>>
host == <<host_script, host_witness, host_sinces, host_fail>>
harness == <<entry, run, prev_result, cmp_ops, cmp_out>>

\* return Err(e)
Fail(e) == result' = e /\ pc' = pc

\* fall through to the next statement
Goto(label) == pc' = label /\ result' = result

\* let script = load_script()?; let args = script.args().unpack();
LoadScript ==
    /\ pc = "load_script" /\ result = "Running"
    /\ IF host_script.status = "Ok"
       THEN args' = host_script.args /\ Goto("check_args_len")
       ELSE args' = args /\ Fail(ErrorFromSysError(host_script.status))
    /\ UNCHANGED <<since, lock_bytes, require_first_n, threshold, pubkeys_cnt,
                   multisig_script_len, i, host, harness>>

ArgsLenBad_or(a) == Len(a) # BLAKE160_SIZE \/ Len(a) # BLAKE160_SIZE + U64_SIZE

ArgsLenBad(a) == Len(a) # BLAKE160_SIZE /\ Len(a) # BLAKE160_SIZE + U64_SIZE

CheckArgsLen ==
    /\ pc = "check_args_len" /\ result = "Running"
    /\ IF ArgsLenBad(args) THEN Fail("ArgumentsLen") ELSE Goto("decode_since")
    /\ UNCHANGED <<main_locals, i, host, harness>>

DecodedSince(a) ==
    IF Len(a) = BLAKE160_SIZE + U64_SIZE
    THEN from_le_bytes(SubSeq(a, BLAKE160_SIZE + 1, BLAKE160_SIZE + 8))
    ELSE U64Zero

DecodeSince ==
    /\ pc = "decode_since" /\ result = "Running"
    /\ since' = DecodedSince(args)
    /\ Goto("load_witness")
    /\ UNCHANGED <<args, lock_bytes, require_first_n, threshold, pubkeys_cnt,
                   multisig_script_len, i, host, harness>>

LoadWitness ==
    /\ pc = "load_witness" /\ result = "Running"
    /\ IF host_witness.status \notin {"Lock", "NoLock"}
       THEN lock_bytes' = lock_bytes /\ Fail(ErrorFromSysError(host_witness.status))
       ELSE IF host_witness.status = "NoLock"
       THEN lock_bytes' = lock_bytes /\ Fail("WitnessSize")
       ELSE IF Len(host_witness.lock) < FLAGS_SIZE
       THEN lock_bytes' = lock_bytes /\ Fail("WitnessSize")
       ELSE lock_bytes' = host_witness.lock /\ Goto("check_reserved")
    /\ UNCHANGED <<args, since, require_first_n, threshold, pubkeys_cnt,
                   multisig_script_len, i, host, harness>>

CheckReserved ==
    /\ pc = "check_reserved" /\ result = "Running"
    /\ IF lock_bytes[1] # 0 THEN Fail("InvalidReserveField") ELSE Goto("check_threshold")
    /\ UNCHANGED <<main_locals, i, host, harness>>

CheckThreshold_pubkeys_first ==
    /\ pc = "check_threshold" /\ result = "Running"
    /\ require_first_n' = lock_bytes[2]
    /\ threshold' = lock_bytes[3]
    /\ IF lock_bytes[4] = 0 THEN Fail("InvalidPubkeysCnt")
       ELSE IF threshold' = 0 THEN Fail("InvalidThreshold")
       ELSE Goto("check_pubkeys_cnt")
    /\ UNCHANGED <<args, since, lock_bytes, pubkeys_cnt, multisig_script_len, i,
                   host, harness>>

CheckThreshold ==
    /\ pc = "check_threshold" /\ result = "Running"
    /\ require_first_n' = lock_bytes[2]
    /\ threshold' = lock_bytes[3]
    /\ IF threshold' = 0 THEN Fail("InvalidThreshold") ELSE Goto("check_pubkeys_cnt")
    /\ UNCHANGED <<args, since, lock_bytes, pubkeys_cnt, multisig_script_len, i,
                   host, harness>>

CheckPubkeysCnt ==
    /\ pc = "check_pubkeys_cnt" /\ result = "Running"
    /\ pubkeys_cnt' = lock_bytes[4]
    /\ IF pubkeys_cnt' = 0 THEN Fail("InvalidPubkeysCnt")
       ELSE Goto("check_threshold_pubkeys")
    /\ UNCHANGED <<args, since, lock_bytes, require_first_n, threshold,
                   multisig_script_len, i, host, harness>>

ThresholdTooBig_ge(m, n) == m >= n

ThresholdTooBig(m, n) == m > n

CheckThresholdPubkeys ==
    /\ pc = "check_threshold_pubkeys" /\ result = "Running"
    /\ IF ThresholdTooBig(threshold, pubkeys_cnt) THEN Fail("InvalidThreshold")
       ELSE Goto("check_require_first_n")
    /\ UNCHANGED <<main_locals, i, host, harness>>

CheckRequireFirstN ==
    /\ pc = "check_require_first_n" /\ result = "Running"
    /\ IF require_first_n > threshold THEN Fail("InvalidRequireFirstN")
       ELSE Goto("check_lock_len")
    /\ UNCHANGED <<main_locals, i, host, harness>>

LockLenBad_short(len, required) == len < required

LockLenBad(len, required) == len # required

CheckLockLen ==
    /\ pc = "check_lock_len" /\ result = "Running"
    /\ multisig_script_len' = FLAGS_SIZE + BLAKE160_SIZE * pubkeys_cnt
    /\ LET signatures_len == SIGNATURE_SIZE * threshold
           required_lock_len == multisig_script_len' + signatures_len
       IN  IF LockLenBad(Len(lock_bytes), required_lock_len) THEN Fail("WitnessSize")
           ELSE Goto("check_multisig_hash")
    /\ UNCHANGED <<args, since, lock_bytes, require_first_n, threshold, pubkeys_cnt,
                   i, host, harness>>

MultisigHashMatches_whole_lock(a, lock, script_len) ==
    Slice(a, BLAKE160_SIZE) = Slice(Blake2b(lock), BLAKE160_SIZE)

\* args.as_ref() == tmp.as_slice(), tmp the digest of lock_bytes[0..multisig_script_len]
MultisigHashMatches(a, lock, script_len) ==
    a = Blake2b(Slice(lock, script_len))

CheckMultisigHash ==
    /\ pc = "check_multisig_hash" /\ result = "Running"
    /\ IF ~ MultisigHashMatches(args, lock_bytes, multisig_script_len)
       THEN Fail("MultsigScriptHash") /\ i' = i
       ELSE Goto("check_since") /\ i' = 0
    /\ UNCHANGED <<main_locals, host, harness>>

-----------------------------------------------------------------------------
(* check_since, entry.rs 97-126 *)

\* load_input_since(idx, Source::GroupOutput)
load_input_since(idx) ==
    IF idx \in host_fail THEN [status |-> "ItemMissing", value |-> U64Zero]
    ELSE IF idx < Len(host_sinces) THEN [status |-> "Ok", value |-> host_sinces[idx + 1]]
    ELSE [status |-> "IndexOutOfBound", value |-> U64Zero]

\* one iteration of the loop; the break returns Ok(()) from check_since and main
CheckSinceLoop ==
    /\ pc = "check_since" /\ result = "Running"
    /\ LET since_flags == Shr(since, SINCE_VALUE_BITS)
           since_value == And64(since, SINCE_VALUE_MASK)
           loaded == load_input_since(i)
       IN  IF loaded.status = "Ok"
           THEN LET verdict == SlotCheck(since_flags, since_value, loaded.value)
                IN  IF verdict = "Ok" THEN i' = i + 1 /\ Goto("check_since")
                    ELSE i' = i /\ Fail(verdict)
           ELSE IF loaded.status = "IndexOutOfBound"
           THEN i' = i /\ Fail("Ok")
           ELSE i' = i /\ Fail(ErrorFromSysError(loaded.status))
    /\ UNCHANGED <<main_locals, host, harness>>

-----------------------------------------------------------------------------
(* A second validation of the same transaction with other signature bytes:  *)
(* the witness lock keeps its header-plus-keys prefix and its length.      *)

OtherSignatures(lock) ==
    LET prefix == DeclaredPrefix(lock)
    IN  prefix \o Fill(Len(lock) - Len(prefix), 9)

Rerun ==
    /\ entry = "main" /\ run = 1 /\ result # "Running"
    /\ host_witness.status = "Lock"
    /\ Len(host_witness.lock) >= FLAGS_SIZE
    /\ host_witness' = [host_witness EXCEPT !.lock = OtherSignatures(@)]
    /\ host_witness' # host_witness
    /\ prev_result' = result
    /\ run' = 2
    /\ pc' = "load_script"
    /\ result' = "Running"
    /\ args' = <<>>
    /\ since' = U64Zero
    /\ lock_bytes' = <<>>
    /\ require_first_n' = 0
    /\ threshold' = 0
    /\ pubkeys_cnt' = 0
    /\ multisig_script_len' = 0
    /\ i' = 0
    /\ UNCHANGED <<entry, host_script, host_sinces, host_fail, cmp_ops, cmp_out>>

Next ==
    \/ LoadScript
    \/ CheckArgsLen
    \/ DecodeSince
    \/ LoadWitness
    \/ CheckReserved
    \/ CheckThreshold
    \/ CheckPubkeysCnt
    \/ CheckThresholdPubkeys
    \/ CheckRequireFirstN
    \/ CheckLockLen
    \/ CheckMultisigHash
    \/ CheckSinceLoop
    \/ Rerun

Spec == Init /\ [][Next]_vars

-----------------------------------------------------------------------------
(* Applying epoch_number_with_fraction_cmp to the operands, and the test   *)
(* check_since makes with operand a as the loaded value and b as the bound *)

WithFlags(v, flags) == <<v[1], v[2], v[3], (v[4] % 256) + flags * 256>>

Compare ==
    /\ pc = "cmp"
    /\ LET a == cmp_ops[1]
           b == cmp_ops[2]
           c == cmp_ops[3]
       IN  cmp_out' = [ab |-> epoch_number_with_fraction_cmp(a, b),
                       ba |-> epoch_number_with_fraction_cmp(b, a),
                       bc |-> epoch_number_with_fraction_cmp(b, c),
                       ac |-> epoch_number_with_fraction_cmp(a, c),
                       verdict |-> SlotCheck(SINCE_EPOCH_FRACTION_FLAG, b,
                                             WithFlags(a, SINCE_EPOCH_FRACTION_FLAG))]
    /\ pc' = "cmp_done"
    /\ UNCHANGED <<entry, result, main_locals, i, host, run, prev_result, cmp_ops>>

NextCmp == Compare

SpecCmp == InitCmp /\ [][NextCmp]_vars

-----------------------------------------------------------------------------
(* Properties.  They are stated on the transaction the host serves         *)
(* (host_script, host_witness, host_sinces, host_fail) and on the result,  *)
(* not on the locals of main.                                              *)

Done == result # "Running"
InMain == entry = "main"

\* the witness descriptor and its header fields
Descriptor == host_witness.lock
HasDescriptor == host_witness.status = "Lock" /\ Len(Descriptor) >= FLAGS_SIZE
Reserved == Descriptor[1]
FirstN == Descriptor[2]
M == Descriptor[3]
N == Descriptor[4]
DescriptorLen(n, m) == 4 + 20 * n + 65 * m

ValidationLabels ==
    {"check_reserved", "check_threshold", "check_pubkeys_cnt",
     "check_threshold_pubkeys", "check_require_first_n", "check_lock_len"}
AfterValidation == {"check_multisig_hash", "check_since"}

\* flags byte and fields of a since value, read off the limbs
FlagsOf(v) == v[4] \div 256
NumberOf(v) == v[1] + (v[2] % 256) * 65536
IndexOf(v) == v[2] \div 256 + (v[3] % 256) * 256
LengthOf(v) == v[3] \div 256 + (v[4] % 256) * 256

\* C1: a run of main that reaches VerifyCommitment passes it exactly when the
\* 20-byte digest of descriptor[0 .. 4+20N] equals the policy_commitment in the
\* arguments, and is rejected with MultsigScriptHash otherwise.
C1_CommitmentDecides ==
    (InMain /\ pc = "check_multisig_hash" /\ Done)
        => (result = "MultsigScriptHash"
              <=> Slice(host_script.args, 20)
                    # Slice(Blake2b(Slice(Descriptor, 4 + 20 * N)), 20))

\* what the code does instead: no run of main passes VerifyCommitment
MainNeverPassesCommitment ==
    InMain => (pc # "check_since" /\ result # "Ok")

\* C2: when since_bound is 0, check_since succeeds for every sequence of
\* group output since values.
C2_ZeroBoundSkips ==
    (pc = "check_since" /\ Done /\ since = U64Zero /\ host_fail = {})
        => result = "Ok"

\* low 56 bits of v strictly below those of b
PlainLess(v, b) ==
    LET x == <<v[1], v[2], v[3], v[4] % 256>>
        y == <<b[1], b[2], b[3], b[4] % 256>>
    IN  \E k \in 1..4 : x[k] < y[k] /\ \A j \in (k + 1)..4 : x[j] = y[j]

FlagsDiffer(k) == FlagsOf(host_sinces[k + 1]) # FlagsOf(since)

ValueLess(k) ==
    IF FlagsOf(since) = 32
    THEN epoch_number_with_fraction_cmp(And64(host_sinces[k + 1], SINCE_VALUE_MASK),
                                        And64(since, SINCE_VALUE_MASK)) < 0
    ELSE PlainLess(host_sinces[k + 1], since)

\* slot indexes (from 0) at which check_since cannot go on
Stops ==
    { k \in 0..Len(host_sinces) :
        \/ k \in host_fail
        \/ k < Len(host_sinces) /\ (FlagsDiffer(k) \/ ValueLess(k)) }

\* C3: with a nonzero bound check_since visits the slots in index order,
\* stops at the first slot with other flags (IncorrectSinceFlags) or with the
\* same flags and a smaller value (IncorrectSinceValue), rejects on a host
\* failure other than end-of-sequence, and succeeds exactly when it meets the
\* end of the sequence first.
C3_FirstFailingSlot ==
    (pc = "check_since" /\ since # U64Zero)
        => /\ \A k \in Stops : i <= k
           /\ i <= Len(host_sinces)
           /\ Done =>
                IF Stops = {}
                THEN result = "Ok" /\ i = Len(host_sinces)
                ELSE /\ i \in Stops
                     /\ result = IF i \in host_fail THEN "HostDataUnavailable"
                                 ELSE IF FlagsDiffer(i) THEN "IncorrectSinceFlags"
                                 ELSE "IncorrectSinceValue"

C3_Witness ==
    /\ entry = "check_since" /\ Done
    /\ FlagsOf(since) = 32
    /\ Len(host_sinces) = 2
    /\ i = 1
    /\ result = "IncorrectSinceValue"

\* the run got as far as the structural validation of a descriptor
ReachedValidation ==
    InMain /\ HasDescriptor /\ pc \in ValidationLabels \cup AfterValidation

\* the run left the structural validation, by an error or by passing it
LeftValidation ==
    ReachedValidation /\ (Done \/ pc \in AfterValidation)

StructurallyValid ==
    /\ Reserved = 0
    /\ M >= 1
    /\ N >= 1
    /\ M <= N
    /\ FirstN <= M
    /\ Len(Descriptor) = DescriptorLen(N, M)

\* C5: the structural validation of a descriptor of at least 4 bytes passes
\* if and only if the six conditions hold; no run is at VerifyCommitment or
\* beyond with a descriptor violating one of them.
C5_ValidationExact ==
    /\ LeftValidation => (pc \in AfterValidation <=> StructurallyValid)
    /\ (InMain /\ (pc \in AfterValidation \/ result = "Ok"))
            => (HasDescriptor /\ StructurallyValid)

C5_Witness ==
    /\ InMain /\ pc = "check_multisig_hash"
    /\ N = 3 /\ M = 2 /\ FirstN = 1 /\ Len(Descriptor) = 194

\* bit n (0..63) of the u64 x
Bit(x, n) == (x[(n \div 16) + 1] \div (2^(n % 16))) % 2

\* bit n of the byte string b read as a little-endian integer
LeBit(b, n) == (b[(n \div 8) + 1] \div 2^(n % 8)) % 2

\* C6: arguments of a length other than 20 and 28 are rejected with
\* ArgumentsLen before the witness and the since values are read; arguments
\* of length 20 or 28 never end in ArgumentsLen, and since_bound is the
\* little-endian u64 of bytes 20..28, or 0 for 20 bytes.
C6_ArgumentsLen ==
    (InMain /\ host_script.status = "Ok")
        => LET a == host_script.args
           IN  /\ (Done /\ Len(a) \notin {20, 28})
                    => /\ result = "ArgumentsLen"
                       /\ pc = "check_args_len"
                       /\ lock_bytes = <<>> /\ i = 0
               /\ Len(a) \in {20, 28} => result # "ArgumentsLen"
               /\ (Len(a) = 28 /\ pc \notin {"load_script", "check_args_len", "decode_since"})
                    => \A n \in 0..63 : Bit(since, n) = LeBit(SubSeq(a, 21, 28), n)
               /\ Len(a) = 20 => since = U64Zero

C6_Witness ==
    /\ InMain /\ Done /\ result = "ArgumentsLen"
    /\ Len(host_script.args) = 32
    /\ HasDescriptor /\ StructurallyValid
    /\ host_sinces # <<>>

\* the header checks in the order of the code, and the error of each
HeaderViolations ==
    <<Reserved # 0, M = 0, N = 0, M > N, FirstN > M,
      Len(Descriptor) # DescriptorLen(N, M)>>
HeaderErrors ==
    <<"InvalidReserveField", "InvalidThreshold", "InvalidPubkeysCnt",
      "InvalidThreshold", "InvalidRequireFirstN", "WitnessSize">>

\* C9: the first violated check, in the order reserved, threshold = 0,
\* pubkey_count = 0, threshold > pubkey_count, require_first_n > threshold,
\* length, alone determines the error; the length check is evaluated only
\* when the five header checks pass.
C9_FirstViolatedCheck ==
    /\ (ReachedValidation /\ Done /\ pc \in ValidationLabels)
            => \E k \in 1..6 :
                /\ HeaderViolations[k]
                /\ \A j \in 1..(k - 1) : ~ HeaderViolations[j]
                /\ result = HeaderErrors[k]
    /\ (ReachedValidation /\ pc = "check_lock_len")
            => \A j \in 1..5 : ~ HeaderViolations[j]

C9_Witness ==
    /\ ReachedValidation /\ Done
    /\ Reserved = 0 /\ M = 0 /\ N = 0 /\ FirstN > M
    /\ Len(Descriptor) # DescriptorLen(N, M)
    /\ result = "InvalidThreshold"

\* C10: two validations of the same arguments and output since values on
\* descriptors with the same header-plus-keys prefix and the same length, but
\* other signature bytes, end in the same outcome.
C10_SignaturesIgnored ==
    (InMain /\ run = 2 /\ Done) => result = prev_result

C10_Witness ==
    /\ InMain /\ run = 2 /\ Done
    /\ pc = "check_multisig_hash"
    /\ StructurallyValid
    /\ Len(host_script.args) = 20
    /\ host_script.args = Slice(Blake2b(Slice(Descriptor, 4 + 20 * N)), 20)

-----------------------------------------------------------------------------
(* Properties of epoch_number_with_fraction_cmp, under SpecCmp *)

CmpDone == pc = "cmp_done"

Antisymmetric == cmp_out.ab = 0 - cmp_out.ba

Transitive ==
    /\ (cmp_out.ab <= 0 /\ cmp_out.bc <= 0) => cmp_out.ac <= 0
    /\ (cmp_out.ab = 0 /\ cmp_out.bc = 0) => cmp_out.ac = 0

\* the value stands for the fraction 0/0
ZeroOverZero(v) == IndexOf(v) = 0 /\ LengthOf(v) = 0

\* C7 as stated: the comparator is antisymmetric and transitive on all
\* 56-bit epoch-fraction values.
C7_Original ==
    CmpDone => (Antisymmetric /\ Transitive)

\* C7 amended: the comparator is antisymmetric on all epoch-fraction values,
\* and transitive on the values that do not have both index = 0 and length = 0.
C7_Amended ==
    CmpDone
        => /\ Antisymmetric
           /\ (\A k \in 1..3 : ~ ZeroOverZero(cmp_ops[k])) => Transitive

C7_Witness ==
    /\ CmpDone
    /\ NumberOf(cmp_ops[1]) = NumberOf(cmp_ops[2])
    /\ NumberOf(cmp_ops[2]) = NumberOf(cmp_ops[3])
    /\ LengthOf(cmp_ops[3]) = 0 /\ IndexOf(cmp_ops[3]) > 0
    /\ cmp_out.ab < 0 /\ cmp_out.bc < 0 /\ cmp_out.ac < 0 /\ cmp_out.ba > 0

\* the order of the fractions p1/q1 and p2/q2 (q1, q2 > 0) by their continued
\* fractions: -1, 0 or 1
RECURSIVE RatCmp(_, _, _, _)
RatCmp(p1, q1, p2, q2) ==
    LET w1 == p1 \div q1
        w2 == p2 \div q2
        r1 == p1 % q1
        r2 == p2 % q2
    IN  IF w1 < w2 THEN 0 - 1
        ELSE IF w1 > w2 THEN 1
        ELSE IF r1 = 0 /\ r2 = 0 THEN 0
        ELSE IF r1 = 0 THEN 0 - 1
        ELSE IF r2 = 0 THEN 1
        ELSE 0 - RatCmp(q1, r1, q2, r2)

\* the order of the pairs (number, index/length)
EpochOrder(a, b) ==
    IF NumberOf(a) < NumberOf(b) THEN 0 - 1
    ELSE IF NumberOf(a) > NumberOf(b) THEN 1
    ELSE RatCmp(IndexOf(a), LengthOf(a), IndexOf(b), LengthOf(b))

\* C8: for operands with nonzero length fields the comparator returns the
\* order of the pairs (number, index/length); the two products stay below
\* 2^32; and check_since accepts the candidate a against the bound b exactly
\* when the result is not -1.
C8_FractionOrder ==
    (CmpDone /\ LengthOf(cmp_ops[1]) > 0 /\ LengthOf(cmp_ops[2]) > 0)
        => LET a == cmp_ops[1]
               b == cmp_ops[2]
               a_block == Mul64(IndexOf(a), LengthOf(b))
               b_block == Mul64(IndexOf(b), LengthOf(a))
           IN  /\ cmp_out.ab = EpochOrder(a, b)
               /\ a_block[3] = 0 /\ a_block[4] = 0
               /\ b_block[3] = 0 /\ b_block[4] = 0
               /\ cmp_out.verdict = IF cmp_out.ab = 0 - 1 THEN "IncorrectSinceValue"
                                    ELSE "Ok"

C8_Witness ==
    /\ CmpDone
    /\ cmp_ops[1] = MkSince(0, 2, 1, 10)
    /\ cmp_ops[2] = MkSince(0, 4, 1, 10)
    /\ cmp_out.ab = 1
    /\ cmp_out.verdict = "Ok"

====
